---- MODULE Spec2Model ----
(***************************************************************************)
(* RemoteAuth (src/src/authStrategies/RemoteAuth.js): recovery of a        *)
(* session directory from a remote store, the first-backup settle delay,   *)
(* periodic backup cycles driven by setInterval, disconnect and destroy.   *)
(*                                                                         *)
(* Every `await` of the source is a suspension point: each asynchronous    *)
(* method is a process whose pc names the operation it is suspended on,    *)
(* and one action is the continuation that runs when that operation        *)
(* settles (with the outcome of the operation drawn nondeterministically). *)
(***************************************************************************)
EXTENDS Integers, FiniteSets, Sequences, TLC

\* ------------------------------------------------------------------ bounds
MaxCycles == 2     \* storeRemoteSession invocations
MaxIdLen == 2      \* characters of a clientId given to the constructor

\* ------------------------------------------------------- program constants
MinBackupSyncIntervalMs == 60000
SettleDelayMs == 60000
rmMaxRetries == 4
requiredDirs == <<"Default", "IndexedDB", "Local Storage">>

\* A directory entry that is not one of requiredDirs (Chrome's lock file).
OtherEntry == "SingletonLock"
RequiredSet == {requiredDirs[i] : i \in 1..Len(requiredDirs)}

\* A directory, an archive file or a remote record: present or not, and the
\* names it holds.
Absent == [exists |-> FALSE, entries |-> {}]
Present(es) == [exists |-> TRUE, entries |-> es]

VARIABLES
    clientOpts,     \* this.client.options.puppeteer.userDataDir
    launchOptsSet,  \* line 64 has assigned this.client.options.puppeteer
    userDataDir,    \* this.userDataDir
    backupSyncIntervalMs, \* this.backupSyncIntervalMs
    options,        \* the argument of the constructor, and whether the modules loaded
    instance,       \* "none", "constructed", or "threw": the outcome of `new RemoteAuth`
    readySignals,   \* how many times the client signals readiness
    localDir,       \* the directory at this.userDataDir
    tempDir,        \* the directory at this.tempDir
    zipFile,        \* the file at <dataPath>/<sessionName>.zip
    remote,         \* the store's record for this.sessionName
    storeCalls,     \* number of calls made to each store operation
    emitted,        \* number of REMOTE_SESSION_SAVED events emitted
    b,              \* beforeBrowserInitialized / extractRemoteSession
    ready,          \* afterAuthReady invocations
    cyc,            \* storeRemoteSession invocations
    timers,         \* active setInterval timers (named by the invocation that made them)
    timerElapsed,   \* time since each active timer was last scheduled, ms
    backupSync,     \* this.backupSync (0: undefined)
    d,              \* disconnect
    destroyed       \* destroy has been called

vars == <<clientOpts, launchOptsSet, userDataDir, backupSyncIntervalMs, options,
          instance, readySignals, localDir,
          tempDir, zipFile, remote, storeCalls, emitted, b, ready, cyc,
          timers, timerElapsed, backupSync, d, destroyed>>

config == <<backupSyncIntervalMs, options, instance, readySignals>>
disk == <<localDir, tempDir, zipFile>>
sched == <<timers, timerElapsed, backupSync>>

\* The afterAuthReady invocations, each naming the timer it creates: the
\* client signals readiness readySignals times.
ReadyIds == {1, 2}
CycleIds == 1..MaxCycles

\* ----------------------------------------------------------- store contract
\* The four operations of the caller-supplied store, as the source uses them.
Called(op) == [storeCalls EXCEPT ![op] = @ + 1]

\* store.sessionExists settles with whether a record is held.
sessionExistsResult == remote.exists

\* store.save reads the archive at <session>.zip and overwrites the record.
saveResult == Present(zipFile.entries)

\* store.extract writes the record's archive to the given path.
extractResult == Present(remote.entries)

\* ------------------------------------------------------------ fs primitives
\* (mutant of isValidPath: every path is reported to exist)
isValidPath_always(dir) == TRUE

\* fs.promises.access(path) settles without error exactly when path exists.
isValidPath(dir) == dir.exists

\* (mutant of rmSucceeds: the removal is not retried)
rmSucceeds_noRetry(fails) == fails = 0

\* fs.promises.rm(path, {recursive, force, maxRetries}) meeting `fails`
\* transient failures removes the path when the retries suffice.
rmSucceeds(fails) == fails <= rmMaxRetries
RmFailures == 0..(rmMaxRetries + 1)
\* The outcomes of a removal: whether the path was removed.
RmOutcomes == {rmSucceeds(fails) : fails \in RmFailures}

\* (mutant of rmResult: the removal leaves the directory in place)
rmResult_keeps(dir, removed) == dir

\* The path after a removal.
rmResult(dir, removed) == IF removed THEN Absent ELSE dir

\* (mutant of mkdirResult: the directory is not created)
mkdirResult_skipped(dir) == dir

\* fs.mkdirSync / fs.promises.mkdir with {recursive: true}
mkdirResult(dir) == IF dir.exists THEN dir ELSE Present({})

\* unzipper.Extract({path}) writes the archive's entries under path.
unzipResult(dir, zip) == Present(dir.entries \cup zip.entries)

\* ------------------------------------------------------------ constructor
\* Characters a clientId is made of here: two letters, a digit, the
\* underscore, the hyphen, and two characters outside the class of line 32.
Letters == {"a", "Z"}
Digits == {"7"}
Alphabet == Letters \cup Digits \cup {"_", "-", ".", " "}

\* \w of a regular expression: letters, digits and the underscore.
WordChars == Letters \cup Digits \cup {"_"}

\* Line 32: /^[-_\w]+$/i tested on a string: one character or more, each of
\* them a hyphen, an underscore or a word character.
idRegex(str) ==
    /\ Len(str) >= 1
    /\ \A i \in 1..Len(str) : str[i] \in {"-", "_"} \cup WordChars

\* The strings of at most n characters.
RECURSIVE Strings(_)
Strings(n) ==
    IF n = 0 THEN {<<>>}
    ELSE Strings(n - 1) \cup {Append(str, ch) : str \in Strings(n - 1), ch \in Alphabet}

\* Interval values around the limit of line 36.
Intervals == {0, MinBackupSyncIntervalMs - 1, MinBackupSyncIntervalMs,
              MinBackupSyncIntervalMs + 1, 2 * MinBackupSyncIntervalMs}

\* What `new RemoteAuth({clientId, store, backupSyncIntervalMs})` is given:
\* whether the optional modules of lines 4-12 loaded, and each option, which
\* is undefined when not given (clientId then reads as the empty string and
\* the interval as 0, both falsy like undefined).
CtorOptions ==
    {o \in [modulesLoaded : BOOLEAN,
            clientIdGiven : BOOLEAN, clientId : Strings(MaxIdLen),
            store : BOOLEAN,
            intervalGiven : BOOLEAN, backupSyncIntervalMs : Intervals] :
        /\ ~o.clientIdGiven => o.clientId = <<>>
        /\ ~o.intervalGiven => o.backupSyncIntervalMs = 0}

\* The options of the instance whose life the other actions follow.
RunningOptions ==
    [modulesLoaded |-> TRUE, clientIdGiven |-> FALSE, clientId |-> <<>>,
     store |-> TRUE, intervalGiven |-> TRUE,
     backupSyncIntervalMs |-> MinBackupSyncIntervalMs]

\* (mutant of constructor_throws: the interval is not checked)
constructor_throws_unchecked(o) ==
    \/ ~o.modulesLoaded
    \/ o.clientId # <<>> /\ ~idRegex(o.clientId)
    \/ ~o.store

\* Lines 29-39: the four throws of the constructor.  An empty clientId and
\* an interval of 0 are falsy, as undefined is.
constructor_throws(o) ==
    \/ ~o.modulesLoaded
    \/ o.clientId # <<>> /\ ~idRegex(o.clientId)
    \/ o.backupSyncIntervalMs = 0 \/ o.backupSyncIntervalMs < MinBackupSyncIntervalMs
    \/ ~o.store

\* --------------------------------------------------------------------- Init
NoB == [pc |-> "idle", pathExists |-> FALSE, sessionExists |-> FALSE,
        rmFailed |-> FALSE]
NoReady == [pc |-> "idle", ms |-> 0, waited |-> 0]
NoCycle == [pc |-> "idle", owner |-> 0, emit |-> FALSE,
            compressedSessionPath |-> FALSE, error |-> FALSE, afterFailure |-> FALSE]
NoD == [pc |-> "idle", rmFailures |-> 0]

InitialLocal == {Absent, Present({}), Present({"Default", OtherEntry})}
InitialRemote == {Absent, Present(RequiredSet)}

\* A constructed instance on which no method has run yet, whose client will
\* signal readiness `signals` times, with a session directory out of `locals`.
Constructed(signals, locals) ==
    /\ clientOpts \in {"unset", "dirPath", "other"}
    /\ launchOptsSet = FALSE
    /\ userDataDir = "undefined"
    /\ options = RunningOptions
    /\ instance = "constructed"
    /\ backupSyncIntervalMs \in {options.backupSyncIntervalMs}
    /\ readySignals = signals
    /\ localDir \in locals
    /\ tempDir = Absent
    /\ zipFile = Absent
    /\ remote \in InitialRemote
    /\ storeCalls = [op \in {"sessionExists", "save", "extract", "delete"} |-> 0]
    /\ emitted = 0
    /\ b = NoB
    /\ ready = [r \in ReadyIds |-> NoReady]
    /\ cyc = [c \in CycleIds |-> NoCycle]
    /\ timers = {}
    /\ timerElapsed = [r \in ReadyIds |-> 0]
    /\ backupSync = 0
    /\ d = NoD
    /\ destroyed = FALSE

Init == Constructed(1, InitialLocal)

\* The same instance with a client that signals readiness twice, over a
\* stale session directory.
InitReadyTwice == Constructed(2, {Present({"Default", OtherEntry})})

\* Before `new RemoteAuth(options)`: nothing of the instance is set.
InitConstruction ==
    /\ options \in CtorOptions
    /\ instance = "none"
    /\ backupSyncIntervalMs = 0
    /\ readySignals = 1
    /\ clientOpts = "unset"
    /\ launchOptsSet = FALSE
    /\ userDataDir = "undefined"
    /\ localDir = Absent
    /\ tempDir = Absent
    /\ zipFile = Absent
    /\ remote = Absent
    /\ storeCalls = [op \in {"sessionExists", "save", "extract", "delete"} |-> 0]
    /\ emitted = 0
    /\ b = NoB
    /\ ready = [r \in ReadyIds |-> NoReady]
    /\ cyc = [c \in CycleIds |-> NoCycle]
    /\ timers = {}
    /\ timerElapsed = [r \in ReadyIds |-> 0]
    /\ backupSync = 0
    /\ d = NoD
    /\ destroyed = FALSE

\* Lines 28-48: the constructor throws, or sets the fields of the instance.
constructor ==
    /\ instance = "none"
    /\ IF constructor_throws(options)
       THEN /\ instance' = "threw"
            /\ UNCHANGED backupSyncIntervalMs
       ELSE /\ instance' = "constructed"
            /\ backupSyncIntervalMs' = options.backupSyncIntervalMs
    /\ UNCHANGED <<clientOpts, launchOptsSet, userDataDir, options, readySignals,
                   disk, remote, storeCalls, emitted, b, ready, cyc, sched, d,
                   destroyed>>

NextConstruction == constructor

SpecConstruction == InitConstruction /\ [][NextConstruction]_vars

\* ------------------------------------------------ beforeBrowserInitialized
\* (mutant of beforeBrowserInitialized_call: the launch options are set
\* before extractRemoteSession is awaited)
beforeBrowserInitialized_call_early ==
    /\ instance = "constructed"
    /\ b.pc = "idle"
    /\ clientOpts # "other"
    /\ b' = [b EXCEPT !.pc = "access"]
    /\ userDataDir' = "dirPath"
    /\ clientOpts' = "dirPath"
    /\ launchOptsSet' = TRUE
    /\ UNCHANGED <<config, disk, remote, storeCalls, emitted, ready,
                   cyc, sched, d, destroyed>>

\* Lines 50-62: reject a foreign userDataDir, else set this.userDataDir and
\* call extractRemoteSession, which suspends on isValidPath.
beforeBrowserInitialized_call ==
    /\ instance = "constructed"
    /\ b.pc = "idle"
    /\ IF clientOpts = "other"
       THEN /\ b' = [b EXCEPT !.pc = "raised"]
            /\ UNCHANGED userDataDir
       ELSE /\ b' = [b EXCEPT !.pc = "access"]
            /\ userDataDir' = "dirPath"
    /\ UNCHANGED <<clientOpts, launchOptsSet, config, disk, remote,
                   storeCalls, emitted, ready, cyc, sched, d, destroyed>>

\* Lines 127-129: isValidPath settles; store.sessionExists is called.
extractRemoteSession_access ==
    /\ b.pc = "access"
    /\ b' = [b EXCEPT !.pc = "sessionExists", !.pathExists = isValidPath(localDir)]
    /\ storeCalls' = Called("sessionExists")
    /\ UNCHANGED <<clientOpts, launchOptsSet, userDataDir, config, disk,
                   remote, emitted, ready, cyc, sched, d, destroyed>>

\* Lines 64-67, reached when extractRemoteSession has returned.
beforeBrowserInitialized_return ==
    /\ clientOpts' = "dirPath"
    /\ launchOptsSet' = TRUE

\* Lines 137-142 with the local directory as `dir` (rmFailed: a removal was
\* tried and its error swallowed): fetch the archive when a record exists,
\* else mkdirSync the directory and return to line 64.
extractRemoteSession_branch(sessionExists, dir, rmFailed) ==
    IF sessionExists
    THEN /\ b' = [b EXCEPT !.pc = "extract", !.sessionExists = sessionExists,
                           !.rmFailed = rmFailed]
         /\ storeCalls' = Called("extract")
         /\ localDir' = dir
         /\ UNCHANGED <<clientOpts, launchOptsSet>>
    ELSE /\ b' = [NoB EXCEPT !.pc = "done"]
         /\ localDir' = mkdirResult(dir)
         /\ beforeBrowserInitialized_return
         /\ UNCHANGED storeCalls

\* Lines 129-130: store.sessionExists settles (or rejects); with a stale
\* directory the rm of line 131 is started, else the branch of 137 runs.
extractRemoteSession_sessionExists ==
    /\ b.pc = "sessionExists"
    /\ \/ /\ b' = [NoB EXCEPT !.pc = "raised"]
          /\ UNCHANGED <<clientOpts, launchOptsSet, localDir, storeCalls>>
       \/ /\ b.pathExists
          /\ b' = [b EXCEPT !.pc = "rm", !.sessionExists = sessionExistsResult]
          /\ UNCHANGED <<clientOpts, launchOptsSet, localDir, storeCalls>>
       \/ /\ ~b.pathExists
          /\ extractRemoteSession_branch(sessionExistsResult, localDir, FALSE)
    /\ UNCHANGED <<userDataDir, config, tempDir, zipFile, remote,
                   emitted, ready, cyc, sched, d, destroyed>>

\* Lines 131-136: the rm settles; its failure is swallowed by .catch.
extractRemoteSession_rm ==
    /\ b.pc = "rm"
    /\ \E removed \in RmOutcomes :
          extractRemoteSession_branch(b.sessionExists, rmResult(localDir, removed),
                                      ~removed)
    /\ UNCHANGED <<userDataDir, config, tempDir, zipFile, remote,
                   emitted, ready, cyc, sched, d, destroyed>>

\* Lines 138-139: store.extract settles, having written the archive, and
\* unCompressSession starts reading it; or store.extract rejects.
extractRemoteSession_extract ==
    /\ b.pc = "extract"
    /\ \/ /\ remote.exists
          /\ zipFile' = extractResult
          /\ b' = [b EXCEPT !.pc = "unzip"]
       \/ /\ b' = [NoB EXCEPT !.pc = "raised"]
          /\ UNCHANGED zipFile
    /\ UNCHANGED <<clientOpts, launchOptsSet, userDataDir, config,
                   localDir, tempDir, remote, storeCalls, emitted, ready, cyc,
                   sched, d, destroyed>>

\* Lines 170-179: the extraction finishes and the unlink is started, or the
\* stream fails and leaves the directory partially populated.
unCompressSession_extract ==
    /\ b.pc = "unzip"
    /\ \/ /\ zipFile.exists
          /\ localDir' = unzipResult(localDir, zipFile)
          /\ b' = [b EXCEPT !.pc = "unlink"]
       \/ /\ \E part \in SUBSET zipFile.entries :
                localDir' = IF part = {} THEN localDir
                            ELSE Present(localDir.entries \cup part)
          /\ b' = [NoB EXCEPT !.pc = "raised"]
    /\ UNCHANGED <<clientOpts, launchOptsSet, userDataDir, config,
                   tempDir, zipFile, remote, storeCalls, emitted, ready, cyc,
                   sched, d, destroyed>>

\* Line 179 then 64-67: the unlink settles and the launch options are set;
\* or the unlink rejects.
unCompressSession_unlink ==
    /\ b.pc = "unlink"
    /\ \/ /\ zipFile' = Absent
          /\ b' = [NoB EXCEPT !.pc = "done"]
          /\ beforeBrowserInitialized_return
       \/ /\ b' = [NoB EXCEPT !.pc = "raised"]
          /\ UNCHANGED <<zipFile, clientOpts, launchOptsSet>>
    /\ UNCHANGED <<userDataDir, config, localDir, tempDir, remote,
                   storeCalls, emitted, ready, cyc, sched, d, destroyed>>

beforeBrowserInitialized ==
    \/ beforeBrowserInitialized_call
    \/ extractRemoteSession_access
    \/ extractRemoteSession_sessionExists
    \/ extractRemoteSession_rm
    \/ extractRemoteSession_extract
    \/ unCompressSession_extract
    \/ unCompressSession_unlink

\* ------------------------------------------------------- storeRemoteSession
FreeCycles == {c \in CycleIds : cyc[c].pc = "idle"}
\* Invocations take the cycle slots in order.
NextCycle == CHOOSE c \in FreeCycles : \A o \in FreeCycles : c <= o

\* Some timer-driven cycle has already ended with an error.
TimerCycleFailed == \E c \in CycleIds : cyc[c].owner = 0 /\ cyc[c].pc = "raised"

\* (mutant of storeRemoteSession_call: every cycle is asked to emit)
storeRemoteSession_call_emits(c, owner, emit) ==
    [NoCycle EXCEPT !.pc = "access", !.owner = owner, !.emit = TRUE,
                    !.afterFailure = TimerCycleFailed]

\* Line 106: storeRemoteSession(options) is called by afterAuthReady
\* (owner: that invocation, options.emit) or by a timer tick (owner 0), and
\* suspends on isValidPath.
storeRemoteSession_call(c, owner, emit) ==
    [NoCycle EXCEPT !.pc = "access", !.owner = owner, !.emit = emit,
                    !.afterFailure = TimerCycleFailed]

\* Lines 106-111, 151-155, 184: isValidPath settles.  Without the
\* directory the cycle returns; with it compressSession opens the archive
\* for writing and copyByRequiredDirs starts the mkdir of tempDir.
storeRemoteSession_access(c) ==
    /\ cyc[c].pc = "access"
    /\ IF ~(userDataDir = "dirPath" /\ isValidPath(localDir))
       THEN /\ cyc' = [cyc EXCEPT ![c] = [NoCycle EXCEPT !.pc = "returned",
                                                       !.owner = cyc[c].owner]]
            /\ UNCHANGED zipFile
       ELSE /\ cyc' = [cyc EXCEPT ![c].pc = "stage"]
            /\ zipFile' = Present({})
    /\ UNCHANGED <<clientOpts, launchOptsSet, userDataDir, config,
                   localDir, tempDir, remote, storeCalls, emitted, b, ready,
                   sched, d, destroyed>>

\* Lines 115-122 are started: the unlink (only with compressedSessionPath
\* set) and the rm of tempDir.
storeRemoteSession_toFinally(c, error) ==
    [cyc EXCEPT ![c].pc = "finally", ![c].error = error]

\* Lines 185-192: the entries copyByRequiredDirs copies from `src` into
\* the staging directory: each of requiredDirs that exists in src.
RECURSIVE copied(_, _)
copied(src, i) ==
    IF i > Len(requiredDirs) THEN {}
    ELSE (IF src.exists /\ requiredDirs[i] \in src.entries
          THEN {requiredDirs[i]} ELSE {}) \cup copied(src, i + 1)

\* (mutant of copyByRequiredDirs: the directories are moved, not copied)
copyByRequiredDirs_moves(c) ==
    /\ cyc[c].pc = "stage"
    /\ \/ /\ tempDir' = Present(mkdirResult(tempDir).entries \cup copied(localDir, 1))
          /\ localDir' = [localDir EXCEPT !.entries = @ \ copied(localDir, 1)]
          /\ cyc' = [cyc EXCEPT ![c].pc = "archive"]
       \/ /\ tempDir' \in {tempDir, mkdirResult(tempDir)}
          /\ UNCHANGED localDir
          /\ cyc' = storeRemoteSession_toFinally(c, TRUE)
    /\ UNCHANGED <<clientOpts, launchOptsSet, userDataDir, config,
                   zipFile, remote, storeCalls, emitted, b, ready,
                   sched, d, destroyed>>

\* Lines 184-192: copyByRequiredDirs settles: tempDir exists and holds the
\* copies besides what it held, and the archive is being written; or a
\* mkdir or cp rejects, and the finally block starts with
\* compressedSessionPath unset.
copyByRequiredDirs(c) ==
    /\ cyc[c].pc = "stage"
    /\ \/ /\ tempDir' = Present(mkdirResult(tempDir).entries \cup copied(localDir, 1))
          /\ cyc' = [cyc EXCEPT ![c].pc = "archive"]
       \/ /\ tempDir' \in {tempDir, mkdirResult(tempDir)}
          /\ cyc' = storeRemoteSession_toFinally(c, TRUE)
    /\ UNCHANGED <<clientOpts, launchOptsSet, userDataDir, config,
                   localDir, zipFile, remote, storeCalls, emitted, b, ready,
                   sched, d, destroyed>>

\* Lines 156-166, 111-112: the archive of tempDir is complete, the promise
\* resolves with outputPath and store.save is called; or the archiver or
\* the stream fails and the promise rejects.
compressSession_archive(c) ==
    /\ cyc[c].pc = "archive"
    /\ \/ /\ zipFile' = IF zipFile.exists THEN Present(tempDir.entries) ELSE zipFile
          /\ cyc' = [cyc EXCEPT ![c].pc = "save", ![c].compressedSessionPath = TRUE]
          /\ storeCalls' = Called("save")
       \/ /\ cyc' = storeRemoteSession_toFinally(c, TRUE)
          /\ UNCHANGED <<zipFile, storeCalls>>
    /\ UNCHANGED <<clientOpts, launchOptsSet, userDataDir, config,
                   localDir, tempDir, remote, emitted, b, ready, sched, d,
                   destroyed>>

\* Lines 112-114: store.save settles and the event is emitted when asked
\* for; or store.save rejects.  Either way the finally block starts.
storeRemoteSession_save(c) ==
    /\ cyc[c].pc = "save"
    /\ \/ /\ zipFile.exists
          /\ remote' = saveResult
          /\ emitted' = IF cyc[c].emit THEN emitted + 1 ELSE emitted
          /\ cyc' = storeRemoteSession_toFinally(c, FALSE)
       \/ /\ cyc' = storeRemoteSession_toFinally(c, TRUE)
          /\ UNCHANGED <<remote, emitted>>
    /\ UNCHANGED <<clientOpts, launchOptsSet, userDataDir, config, disk,
                   storeCalls, b, ready, sched, d, destroyed>>

\* (mutant of storeRemoteSession_settled: a failed cycle cancels the timers)
storeRemoteSession_settled_stops(c) == IF cyc[c].error THEN {} ELSE timers

\* Line 116: the unlink is made only with compressedSessionPath set.
unlinkAttempted(c) == cyc[c].compressedSessionPath

\* Lines 117-121: the rm of tempDir is always made.
rmAttempted(c) == TRUE

\* The timers left active by a cycle that ends: a rejection of the timer's
\* callback clears nothing.
storeRemoteSession_settled(c) == timers

\* Lines 115-123: Promise.allSettled settles; both removals swallow their
\* failure.  Then the cycle returns, or rethrows the error of the try
\* block, and its locals are gone.
storeRemoteSession_finally(c) ==
    /\ cyc[c].pc = "finally"
    /\ \E unlinkOk \in BOOLEAN, removed \in RmOutcomes :
          /\ zipFile' = IF unlinkAttempted(c) /\ unlinkOk THEN Absent ELSE zipFile
          /\ tempDir' = IF rmAttempted(c) THEN rmResult(tempDir, removed) ELSE tempDir
    /\ cyc' = [cyc EXCEPT ![c] = [NoCycle EXCEPT
                     !.pc = IF cyc[c].error THEN "raised" ELSE "returned",
                     !.owner = cyc[c].owner]]
    /\ timers' = storeRemoteSession_settled(c)
    /\ UNCHANGED <<clientOpts, launchOptsSet, userDataDir, config,
                   localDir, remote, storeCalls, emitted, b, ready, timerElapsed,
                   backupSync, d, destroyed>>

storeRemoteSession ==
    \E c \in CycleIds :
        \/ storeRemoteSession_access(c)
        \/ copyByRequiredDirs(c)
        \/ compressSession_archive(c)
        \/ storeRemoteSession_save(c)
        \/ storeRemoteSession_finally(c)

\* ----------------------------------------------------------- afterAuthReady
\* (mutant of delay: the promise resolves without waiting)
delay_none(ms) == 0

\* Lines 204-206: delay(ms) resolves through setTimeout(resolve, ms): the
\* time its timer runs before it may fire.
delay(ms) == ms

\* Lines 98-101: setInterval; this.backupSync takes the new handle.
afterAuthReady_setInterval(r) ==
    /\ timers' = timers \cup {r}
    /\ timerElapsed' = [timerElapsed EXCEPT ![r] = 0]
    /\ backupSync' = r

\* Line 93: the client is ready (it was launched after
\* beforeBrowserInitialized returned); store.sessionExists is called.
afterAuthReady_call(r) ==
    /\ b.pc = "done"
    /\ r <= readySignals
    /\ ready[r].pc = "idle"
    /\ \A q \in ReadyIds : q < r => ready[q].pc # "idle"
    /\ ready' = [ready EXCEPT ![r].pc = "sessionExists"]
    /\ storeCalls' = Called("sessionExists")
    /\ UNCHANGED <<clientOpts, launchOptsSet, userDataDir, config, disk,
                   remote, emitted, b, cyc, sched, d, destroyed>>

\* Lines 93-101: store.sessionExists settles: with a record the timer is
\* set at once, without one the settle delay starts; or it rejects.
afterAuthReady_sessionExists(r) ==
    /\ ready[r].pc = "sessionExists"
    /\ \/ /\ ready' = [ready EXCEPT ![r] = [NoReady EXCEPT !.pc = "raised"]]
          /\ UNCHANGED sched
       \/ /\ sessionExistsResult
          /\ ready' = [ready EXCEPT ![r] = [NoReady EXCEPT !.pc = "done"]]
          /\ afterAuthReady_setInterval(r)
       \/ /\ ~sessionExistsResult
          /\ ready' = [ready EXCEPT ![r].pc = "delay",
                                    ![r].ms = delay(SettleDelayMs)]
          /\ UNCHANGED sched
    /\ UNCHANGED <<clientOpts, launchOptsSet, userDataDir, config, disk,
                   remote, storeCalls, emitted, b, cyc, d, destroyed>>

\* Lines 95-96: the delay resolves and storeRemoteSession({emit: true}) is
\* called.
afterAuthReady_delay(r) ==
    /\ ready[r].pc = "delay"
    /\ ready[r].waited >= ready[r].ms
    /\ FreeCycles # {}
    /\ ready' = [ready EXCEPT ![r].pc = "storeRemoteSession"]
    /\ cyc' = [cyc EXCEPT ![NextCycle] = storeRemoteSession_call(NextCycle, r, TRUE)]
    /\ UNCHANGED <<clientOpts, launchOptsSet, userDataDir, config, disk,
                   remote, storeCalls, emitted, b, sched, d, destroyed>>

\* Lines 96-101: the first backup cycle has settled: on its return the
\* timer is set, on its error afterAuthReady rejects.
afterAuthReady_storeRemoteSession(r) ==
    /\ ready[r].pc = "storeRemoteSession"
    /\ \E c \in CycleIds :
          /\ cyc[c].owner = r
          /\ \/ /\ cyc[c].pc = "returned"
                /\ ready' = [ready EXCEPT ![r] = [NoReady EXCEPT !.pc = "done"]]
                /\ afterAuthReady_setInterval(r)
             \/ /\ cyc[c].pc = "raised"
                /\ ready' = [ready EXCEPT ![r] = [NoReady EXCEPT !.pc = "raised"]]
                /\ UNCHANGED sched
    /\ UNCHANGED <<clientOpts, launchOptsSet, userDataDir, config, disk,
                   remote, storeCalls, emitted, b, cyc, d, destroyed>>

\* Lines 99-101: an active timer fires, no earlier than one interval after
\* it was scheduled, is scheduled again from this firing, and its callback
\* calls storeRemoteSession().
setInterval_tick(r) ==
    /\ r \in timers
    /\ timerElapsed[r] >= backupSyncIntervalMs
    /\ FreeCycles # {}
    /\ timerElapsed' = [timerElapsed EXCEPT ![r] = 0]
    /\ cyc' = [cyc EXCEPT ![NextCycle] = storeRemoteSession_call(NextCycle, 0, FALSE)]
    /\ UNCHANGED <<clientOpts, launchOptsSet, userDataDir, config, disk,
                   remote, storeCalls, emitted, b, ready, timers, backupSync, d,
                   destroyed>>

afterAuthReady ==
    \E r \in ReadyIds :
        \/ afterAuthReady_call(r)
        \/ afterAuthReady_sessionExists(r)
        \/ afterAuthReady_delay(r)
        \/ afterAuthReady_storeRemoteSession(r)
        \/ setInterval_tick(r)

\* Time passes, in steps of half the settle delay, for every pending
\* setTimeout and every active setInterval; a timer that may fire keeps no
\* count of the time beyond that.
ClockStepMs == SettleDelayMs \div 2
Advance(elapsed, ms) == IF elapsed < ms THEN elapsed + ClockStepMs ELSE elapsed

timePasses ==
    /\ ready' = [r \in ReadyIds |->
                    IF ready[r].pc = "delay"
                    THEN [ready[r] EXCEPT !.waited = Advance(@, ready[r].ms)]
                    ELSE ready[r]]
    /\ timerElapsed' = [r \in ReadyIds |->
                    IF r \in timers
                    THEN Advance(timerElapsed[r], backupSyncIntervalMs)
                    ELSE timerElapsed[r]]
    /\ <<ready, timerElapsed>>' # <<ready, timerElapsed>>
    /\ UNCHANGED <<clientOpts, launchOptsSet, userDataDir, config, disk,
                   remote, storeCalls, emitted, b, cyc, timers, backupSync, d,
                   destroyed>>

\* ------------------------------------------------------ disconnect, destroy
\* clearInterval(this.backupSync): the timer of that handle, if any, is
\* cancelled; this.backupSync keeps the handle.
clearInterval ==
    /\ timers' = timers \ {backupSync}
    /\ timerElapsed' = [r \in ReadyIds |-> IF r = backupSync THEN 0 ELSE timerElapsed[r]]
    /\ UNCHANGED backupSync

\* Lines 78-79, 146: disconnect calls deleteRemoteSession, which calls
\* store.sessionExists.
disconnect_call ==
    /\ b.pc = "done"
    /\ d.pc = "idle"
    /\ d' = [d EXCEPT !.pc = "sessionExists"]
    /\ storeCalls' = Called("sessionExists")
    /\ UNCHANGED <<clientOpts, launchOptsSet, userDataDir, config, disk,
                   remote, emitted, b, ready, cyc, sched, destroyed>>

\* (mutant of deleteRemoteSession_sessionExists: store.delete is called
\* whatever store.sessionExists reports)
deleteRemoteSession_sessionExists_always ==
    /\ d.pc = "sessionExists"
    /\ d' = [d EXCEPT !.pc = "delete"]
    /\ storeCalls' = Called("delete")
    /\ UNCHANGED <<clientOpts, launchOptsSet, userDataDir, config, disk,
                   remote, emitted, b, ready, cyc, sched, destroyed>>

\* Lines 146-147, 81: store.sessionExists settles: with a record
\* store.delete is called, without one isValidPath; or it rejects.
deleteRemoteSession_sessionExists ==
    /\ d.pc = "sessionExists"
    /\ \/ /\ d' = [d EXCEPT !.pc = "raised"]
          /\ UNCHANGED storeCalls
       \/ /\ sessionExistsResult
          /\ d' = [d EXCEPT !.pc = "delete"]
          /\ storeCalls' = Called("delete")
       \/ /\ ~sessionExistsResult
          /\ d' = [d EXCEPT !.pc = "access"]
          /\ UNCHANGED storeCalls
    /\ UNCHANGED <<clientOpts, launchOptsSet, userDataDir, config, disk,
                   remote, emitted, b, ready, cyc, sched, destroyed>>

\* Lines 147, 81: store.delete settles and isValidPath is called; or it
\* rejects and disconnect rejects with it.
deleteRemoteSession_delete ==
    /\ d.pc = "delete"
    /\ \/ /\ remote' = Absent
          /\ d' = [d EXCEPT !.pc = "access"]
       \/ /\ d' = [d EXCEPT !.pc = "raised"]
          /\ UNCHANGED remote
    /\ UNCHANGED <<clientOpts, launchOptsSet, userDataDir, config, disk,
                   storeCalls, emitted, b, ready, cyc, sched, destroyed>>

\* Lines 81-89: isValidPath settles: with the directory the rm is started,
\* without it the interval is cleared and disconnect returns.
disconnect_access ==
    /\ d.pc = "access"
    /\ IF isValidPath(localDir)
       THEN /\ d' = [d EXCEPT !.pc = "rm"]
            /\ UNCHANGED sched
       ELSE /\ d' = [d EXCEPT !.pc = "done"]
            /\ clearInterval
    /\ UNCHANGED <<clientOpts, launchOptsSet, userDataDir, config, disk,
                   remote, storeCalls, emitted, b, ready, cyc, destroyed>>

\* Lines 83-89: the rm settles after meeting some number of transient
\* failures (kept in rmFailures), its final failure swallowed; the interval
\* is cleared and disconnect returns.
disconnect_rm ==
    /\ d.pc = "rm"
    /\ \E fails \in RmFailures :
          /\ localDir' = rmResult(localDir, rmSucceeds(fails))
          /\ d' = [d EXCEPT !.pc = "done", !.rmFailures = fails]
    /\ clearInterval
    /\ UNCHANGED <<clientOpts, launchOptsSet, userDataDir, config,
                   tempDir, zipFile, remote, storeCalls, emitted, b, ready, cyc,
                   destroyed>>

\* Lines 70-72: logout awaits disconnect and does nothing else.
logout == disconnect_call

disconnect ==
    \/ disconnect_call
    \/ logout
    \/ deleteRemoteSession_sessionExists
    \/ deleteRemoteSession_delete
    \/ disconnect_access
    \/ disconnect_rm

\* (mutant of destroy: it also deletes the remote record)
destroy_deleting ==
    /\ b.pc = "done"
    /\ ~destroyed
    /\ destroyed' = TRUE
    /\ clearInterval
    /\ remote' = Absent
    /\ storeCalls' = Called("delete")
    /\ UNCHANGED <<clientOpts, launchOptsSet, userDataDir, config, disk,
                   emitted, b, ready, cyc, d>>

\* Lines 74-76: destroy clears the interval.
destroy ==
    /\ b.pc = "done"
    /\ ~destroyed
    /\ destroyed' = TRUE
    /\ clearInterval
    /\ UNCHANGED <<clientOpts, launchOptsSet, userDataDir, config, disk,
                   remote, storeCalls, emitted, b, ready, cyc, d>>

Next ==
    \/ beforeBrowserInitialized
    \/ afterAuthReady
    \/ storeRemoteSession
    \/ disconnect
    \/ destroy
    \/ timePasses

Spec == Init /\ [][Next]_vars

SpecReadyTwice == InitReadyTwice /\ [][Next]_vars

\* ------------------------------------------------------------------- claims
Recovering == b.pc \in {"access", "sessionExists", "rm", "extract", "unzip", "unlink"}
RecoveryReturns == b.pc # "done" /\ b'.pc = "done"
Active(c) == cyc[c].pc \in {"access", "stage", "archive", "save", "finally"}
Ended(c) == cyc[c].pc \in {"returned", "raised"}

\* C1: the launch options are given the session directory only in the step
\* that ends a completed recovery (the directory exists, no archive is
\* left); while recovery runs, and after it has raised, they are not set.
C1_OptionsAfterRecovery ==
    /\ [](Recovering \/ b.pc \in {"idle", "raised"} => ~launchOptsSet)
    /\ [][launchOptsSet' /\ ~launchOptsSet =>
            RecoveryReturns /\ localDir'.exists /\ ~zipFile'.exists]_vars

C1_Witness ==
    /\ launchOptsSet /\ b.pc = "done" /\ clientOpts = "dirPath"
    /\ storeCalls.extract = 1 /\ localDir = Present(RequiredSet)

Fetched == b.pc = "extract" /\ b'.pc = "unzip"
Decompressed == b.pc = "unzip" /\ b'.pc = "unlink"
ArchiveDeleted == b.pc = "unlink" /\ b'.pc = "done"

\* C3 as stated: with a record, the stale directory is gone when the
\* archive is fetched, the fetched archive is what is decompressed, the
\* archive is deleted after that, and the directory ends holding exactly
\* the archive's contents.
C3_AsStated ==
    /\ [][Fetched => ~localDir.exists /\ zipFile' = Present(remote.entries)]_vars
    /\ [][Decompressed => zipFile = Present(remote.entries)]_vars
    /\ [][ArchiveDeleted =>
            /\ zipFile.exists /\ ~zipFile'.exists
            /\ localDir' = Present(remote.entries)]_vars

\* C3 amended: as stated whenever the stale directory was absent or its
\* removal succeeded; when the removal failed (the error is swallowed) the
\* fetch still follows the removal attempt and the directory ends holding
\* the archive's contents besides the stale ones.
C3_ExactUnlessRmFailed ==
    /\ [][Fetched =>
            /\ ~localDir.exists \/ b.rmFailed
            /\ zipFile' = Present(remote.entries)]_vars
    /\ [][Decompressed => zipFile = Present(remote.entries)]_vars
    /\ [][ArchiveDeleted =>
            /\ zipFile.exists /\ ~zipFile'.exists
            /\ remote.entries \subseteq localDir'.entries
            /\ ~b.rmFailed => localDir'.entries = remote.entries]_vars

C3_Witness ==
    /\ b.pc = "done" /\ remote = Present(RequiredSet)
    /\ localDir = Present(RequiredSet) /\ ~zipFile.exists
    /\ storeCalls.extract = 1 /\ ready[1].pc = "idle" /\ d.pc = "idle"

\* C4: without a record at readiness, store.save is not called before the
\* settle delay has run its 60000 ms, the first backup cycle runs only
\* after it, and no timer is set before that cycle has ended.
C4_FirstSaveAfterDelay ==
    \A r \in ReadyIds :
        /\ ready[r].pc \in {"sessionExists", "delay"} =>
              /\ (\A q \in ReadyIds \ {r} : ready[q].pc = "idle") => storeCalls.save = 0
              /\ r \notin timers
              /\ \A c \in CycleIds : cyc[c].owner # r
        /\ ready[r].pc = "delay" => ready[r].ms = SettleDelayMs
        /\ ready[r].pc = "storeRemoteSession" =>
              /\ ready[r].waited >= SettleDelayMs
              /\ r \notin timers
              /\ \E c \in CycleIds : cyc[c].owner = r
        /\ \A c \in CycleIds :
              cyc[c].owner = r /\ Active(c) => ready[r].pc = "storeRemoteSession"

C4_Witness ==
    /\ ready[1].pc = "storeRemoteSession" /\ ready[1].waited = SettleDelayMs
    /\ storeCalls.save = 1 /\ cyc[1].owner = 1 /\ cyc[1].pc = "save"
    /\ timers = {}

\* C5 as stated: once afterAuthReady has ended, by returning or because its
\* first backup cycle ended with an error, and nothing has cleared the
\* interval since, the timer is running.
C5_AsStated ==
    \A r \in ReadyIds :
        /\ \/ ready[r].pc = "done"
           \/ ready[r].pc = "raised" /\ \E c \in CycleIds : cyc[c].owner = r /\ Ended(c)
        /\ ~destroyed /\ d.pc # "done"
        => r \in timers

\* C6 as stated: every cycle that started staging ends with the unlink of
\* the archive and the rm of the staging directory both attempted.
C6_AsStated ==
    [][\A c \in CycleIds :
          cyc[c].pc = "finally" /\ Ended(c)' =>
              unlinkAttempted(c) /\ rmAttempted(c)]_vars

DeletionPending == d.pc \in {"idle", "sessionExists", "delete"}
C8_DeleteBeforeRemoval ==
    /\ [][d' # d /\ localDir' # localDir => d.pc = "rm" /\ ~DeletionPending]_vars
    /\ [](d.pc \in {"rm", "done"} /\ storeCalls.delete = 1 /\ storeCalls.save = 0
            => ~remote.exists)
    /\ [][storeCalls'.delete # storeCalls.delete =>
             d.pc = "sessionExists" /\ remote.exists]_vars
    /\ [][d.pc = "delete" /\ d'.pc = "access" => ~remote'.exists]_vars
    /\ [][d.pc # "done" /\ d'.pc = "done" =>
             d.pc = "rm" \/ (d.pc = "access" /\ ~localDir.exists)]_vars

C8_Witness ==
    /\ d.pc = "done" /\ storeCalls.delete = 1
    /\ ~remote.exists /\ ~localDir.exists

\* C9 as stated: when disconnect ends, by returning or by raising, the
\* timer of this.backupSync is cancelled.
C9_AsStated ==
    [][d.pc \notin {"done", "raised"} /\ d'.pc \in {"done", "raised"} =>
          timers' = {}]_vars

\* C10: destroy cancels the timer of this.backupSync and nothing else: it
\* calls no store operation and leaves the record, the session directory,
\* the staging directory and the archive file as they are.
C10_DestroyOnlyStops ==
    [][destroyed' /\ ~destroyed =>
          /\ UNCHANGED <<remote, localDir, tempDir, zipFile, storeCalls>>
          /\ UNCHANGED <<b, ready, cyc, d, emitted>>
          /\ backupSync \notin timers'
          /\ timers' \subseteq timers]_vars

C10_Witness ==
    /\ destroyed /\ backupSync = 1 /\ timers = {}
    /\ remote.exists /\ localDir.exists /\ d.pc = "idle"

\* The identifier, if supplied, is made only of letters, digits, underscores
\* and hyphens.
AllowedIdentifier(o) ==
    o.clientIdGiven =>
        \A i \in 1..Len(o.clientId) : o.clientId[i] \in Letters \cup Digits \cup {"_", "-"}

\* The interval is supplied and at least 60000 ms.
AllowedInterval(o) ==
    o.intervalGiven /\ o.backupSyncIntervalMs >= MinBackupSyncIntervalMs

\* C14 as stated: construction succeeds exactly when a store is supplied,
\* the interval is at least 60000 ms and the identifier, if supplied, is
\* made of the allowed characters; otherwise it throws; and a constructed
\* instance has an interval of at least 60000 ms.
C14_AsStated ==
    /\ instance # "none" =>
          (instance = "constructed" <=>
              options.store /\ AllowedInterval(options) /\ AllowedIdentifier(options))
    /\ instance = "constructed" => backupSyncIntervalMs >= MinBackupSyncIntervalMs

\* C14 amended: construction succeeds exactly when, besides the three
\* conditions on the options, the optional modules (fs-extra, unzipper,
\* archiver) loaded; without them it throws whatever the options are.
C14_ExactlyWithModules ==
    /\ instance # "none" =>
          (instance = "constructed" <=>
              /\ options.modulesLoaded
              /\ options.store /\ AllowedInterval(options) /\ AllowedIdentifier(options))
    /\ instance = "threw" => backupSyncIntervalMs = 0
    /\ instance = "constructed" =>
          /\ backupSyncIntervalMs = options.backupSyncIntervalMs
          /\ backupSyncIntervalMs >= MinBackupSyncIntervalMs

C14_Witness ==
    /\ instance = "constructed"
    /\ options.clientIdGiven /\ options.clientId = <<"a", "-">>
    /\ backupSyncIntervalMs = MinBackupSyncIntervalMs

\* C11 as stated: at most one storeRemoteSession invocation is in progress
\* at any time.
C11_AsStated == Cardinality({c \in CycleIds : Active(c)}) <= 1

\* C12 as stated: once deleteRemoteSession has returned in disconnect, no
\* store.save of a backup cycle takes effect, and no cycle stages from the
\* session directory while disconnect is removing it.
C12_AsStated ==
    [][\A c \in CycleIds :
          /\ cyc[c].pc = "save" /\ cyc'[c].pc = "finally" /\ ~cyc'[c].error
                => d.pc \notin {"access", "rm", "done"}
          /\ cyc[c].pc = "stage" /\ cyc'[c].pc = "archive" => d.pc # "rm"]_vars

\* C15 as stated: whenever no backup cycle and no recovery is in progress,
\* no archive file exists.
C15_AsStated ==
    (\A c \in CycleIds : ~Active(c)) /\ ~Recovering => ~zipFile.exists

\* C17 as stated: after destroy, or after disconnect has returned, no
\* backup cycle is started and store.save is not called.
C17_AsStated ==
    [][destroyed \/ d.pc = "done" =>
          /\ \A c \in CycleIds : ~(cyc[c].pc = "idle" /\ cyc'[c].pc = "access")
          /\ storeCalls'.save = storeCalls.save]_vars

\* C13: the rm of disconnect never makes it raise: whatever number of
\* transient failures the removal meets, disconnect returns from it; the
\* rm is reached only after deleteRemoteSession has deleted the record or
\* found none; and with at most rmMaxRetries failures the session
\* directory is gone when disconnect returns (with more, it is left as it
\* was).
C13_RmNeverRaises ==
    /\ [][d.pc = "rm" /\ d' # d =>
             /\ d'.pc = "done"
             /\ d'.rmFailures <= rmMaxRetries => ~localDir'.exists
             /\ d'.rmFailures > rmMaxRetries => localDir' = localDir]_vars
    /\ [][d'.pc = "raised" /\ d.pc # "raised" => d.pc \in {"sessionExists", "delete"}]_vars
    /\ [][d'.pc = "rm" /\ d.pc # "rm" => d.pc = "access"]_vars
    /\ [][d'.pc = "access" /\ d.pc # "access" =>
             \/ d.pc = "delete" /\ ~remote'.exists
             \/ d.pc = "sessionExists" /\ ~remote.exists]_vars

C13_Witness ==
    /\ d.pc = "done" /\ d.rmFailures = 2
    /\ storeCalls.delete = 1 /\ ~remote.exists /\ ~localDir.exists

\* C16 as stated: at most one recurring timer is active at any time.
C16_AsStated == Cardinality(timers) <= 1

\* C18: REMOTE_SESSION_SAVED is emitted once, in the step in which the
\* store.save of a cycle called by afterAuthReady succeeds; such a cycle is
\* called only after the settle delay, which is entered only when
\* store.sessionExists reported no record; a timer-driven cycle is never
\* asked to emit; and when a record is reported afterAuthReady sets the timer
\* at once, without a delay, a cycle, a save or an event.
C18_EmitOnlyFirstBackup ==
    /\ [][emitted' # emitted =>
             /\ emitted' = emitted + 1
             /\ \E c \in CycleIds :
                   /\ cyc[c].pc = "save" /\ cyc'[c].pc = "finally" /\ ~cyc'[c].error
                   /\ cyc[c].owner \in ReadyIds
                   /\ ready[cyc[c].owner].pc = "storeRemoteSession"
                   /\ remote' = Present(zipFile.entries)]_vars
    /\ [](\A c \in CycleIds : cyc[c].owner = 0 => ~cyc[c].emit)
    /\ [][\A r \in ReadyIds : \A c \in CycleIds :
             cyc'[c].owner = r /\ cyc[c].owner # r =>
                 ready[r].pc = "delay" /\ ready[r].waited >= SettleDelayMs]_vars
    /\ [][\A r \in ReadyIds :
             /\ ready[r].pc = "sessionExists" /\ ready'[r].pc = "delay" => ~remote.exists
             /\ ready[r].pc = "sessionExists" /\ ready'[r].pc = "done" =>
                   /\ remote.exists
                   /\ r \in timers'
                   /\ UNCHANGED <<cyc, storeCalls, emitted, remote>>]_vars

C18_Witness ==
    /\ emitted = 1 /\ ready[1].pc = "done" /\ timers = {1} /\ remote.exists
    /\ \E c \in CycleIds : cyc[c].owner = 1 /\ cyc[c].pc = "returned"
    /\ \E c \in CycleIds : cyc[c].owner = 0 /\ cyc[c].pc = "returned"

\* A step of storeRemoteSession invocation c: its call or one of its
\* continuations.
CycleStep(c) == cyc'[c] # cyc[c]

\* C19: no step of a backup cycle changes the session directory, whether
\* the cycle goes on, fails in staging, in compression or in the save, or
\* ends: a cycle changes only the staging directory, the archive file and,
\* through store.save, the record.
C19_CycleLeavesSessionDir ==
    /\ [][(\E c \in CycleIds : CycleStep(c)) =>
             /\ localDir' = localDir
             /\ UNCHANGED <<userDataDir, clientOpts, launchOptsSet>>]_vars
    /\ [][tempDir' # tempDir => \E c \in CycleIds : CycleStep(c)]_vars

C19_Witness ==
    /\ cyc[1].pc = "returned" /\ cyc[2].pc = "raised"
    /\ storeCalls.save = 2 /\ remote = Present({"Default"})
    /\ localDir = Present({"Default", OtherEntry})
    /\ ~tempDir.exists /\ ~zipFile.exists

\* C20: a cycle whose isValidPath finds no session directory returns in
\* that step: no staging directory, no archive file, no store call, no
\* event, and the record is left as it is.
C20_MissingDirNoOp ==
    [][\A c \in CycleIds :
          cyc[c].pc = "access" /\ CycleStep(c) /\ ~localDir.exists =>
              /\ cyc'[c].pc = "returned"
              /\ UNCHANGED <<tempDir, zipFile, remote, storeCalls, emitted>>]_vars

C20_Witness ==
    /\ d.pc = "done" /\ ~localDir.exists /\ ~remote.exists
    /\ cyc[1].owner = 0 /\ cyc[1].pc = "returned"
    /\ storeCalls.save = 0 /\ ~tempDir.exists /\ ~zipFile.exists /\ emitted = 0
====
